---- MODULE Spec2Model ----
(***************************************************************************)
(* fresh-store: an observable state container (Store), a pointer-keyed     *)
(* registry of stores (StoreStack) and the useStore entry point.           *)
(*                                                                         *)
(* State values are JavaScript values: a primitive, or a reference to an   *)
(* object on the heap.  An object has one field, which holds a value, so   *)
(* that a structured value is a chain of objects ending in a primitive.    *)
(* Two references are the same object exactly when they are the same heap  *)
(* index; structuredClone allocates a new chain.                           *)
(***************************************************************************)
EXTENDS Integers, Sequences, FiniteSets

\* ------------------------------------------------------------------ bounds
\* Primitives are 0..MaxPrim.
MaxPrim == 1
\* Deepest nesting of objects in a value the caller builds or an updater returns.
MaxDepth == 2
\* Values the caller keeps a reference to (its local variables).
NumHeld == 2
\* Store instances that can be constructed in one run.
NumStores == 2
\* Observer instances the caller creates.
NumObservers == 3

\* Pointers the caller makes up itself.
NumPointers == 1
\* Pointers crypto.randomUUID() generates in one run.
MaxUUIDs == 1
\* StoreObserver instances useStore creates in one run.
MaxWrappers == 1
\* The frames of set the call stack holds: a set nested deeper throws RangeError
\* (Maximum call stack size exceeded).
MaxStack == 3
\* Calls of useStore that name their pointer, in one run.
MaxCalls == 2
\* StoreStack instances constructed in one run.
MaxStacks == 3

Prims == 0..MaxPrim
Slots == 1..NumHeld
StoreIds == 1..NumStores
Observers == 1..NumObservers
\* The caller's observer whose update throws.
Thrower == 0
\* The caller's observers whose update calls the subject back:
\*   Detacher  update(subject) { subject.detach(this) }
\*   Remover   update(subject) { try { subject.detach(observer1) } catch { } }
\*   Attacher  update(subject) { try { subject.attach(observer1) } catch { } }
\*   Looper    update(subject) { subject.set(subject.state + 1) }
\*   Clamp     update(subject) { if (subject.state !== 1) subject.set(1) }
Detacher == -1
Remover == -2
Attacher == -3
Looper == -4
Clamp == -5

\* ------------------------------------------------------------------ values
P(n) == [k |-> "p", n |-> n]
O(i) == [k |-> "o", n |-> i]

RECURSIVE Chain(_, _)
\* The objects reachable from value v, outermost first.
Chain(h, v) == IF v.k = "p" THEN << >> ELSE <<v.n>> \o Chain(h, h[v.n])

RECURSIVE Leaf(_, _)
\* The primitive a value ends in.
Leaf(h, v) == IF v.k = "p" THEN v.n ELSE Leaf(h, h[v.n])

\* The structure of a value, whatever objects carry it: what deep equality
\* (assertEquals) compares.
Abs(h, v) == [d |-> Len(Chain(h, v)), n |-> Leaf(h, v)]

Objs(h, v) == {Chain(h, v)[i] : i \in 1..Len(Chain(h, v))}

RECURSIVE Literal(_, _, _)
\* The caller writes a literal of depth d ending in n: {f: {f: n}}.
Literal(h, d, n) ==
    IF d = 0 THEN [h |-> h, v |-> P(n)]
    ELSE LET inner == Literal(h, d - 1, n)
             h2 == Append(inner.h, inner.v)
         IN  [h |-> h2, v |-> O(Len(h2))]

\* A clone that returns its argument: the mutant of structuredClone.
structuredClone_identity(h, v) == [h |-> h, v |-> v]

RECURSIVE structuredClone(_, _)
\* structuredClone(v): a primitive is returned as it is; an object is copied into a
\* newly allocated object whose field holds the clone of the original's field.
structuredClone(h, v) ==
    IF v.k = "p" THEN [h |-> h, v |-> v]
    ELSE LET inner == structuredClone(h, h[v.n])
             h2 == Append(inner.h, inner.v)
         IN  [h |-> h2, v |-> O(Len(h2))]

\* ------------------------------------------------------------------ state
VARIABLES
    heap,     \* the objects: heap[i] is the value of object i's field
    store,    \* the Store instances: store[s].state is #state, .observers is #observers
    stores,   \* the registry's own properties (StoreStack.#stores): pointer -> store
    uuids,    \* how many pointers crypto.randomUUID() has generated
    wrappers, \* the StoreObserver instances useStore created: the callback of each
    held,     \* the caller's local variables holding state values
    calls,    \* the update() invocations made by the last call, in order
    err,      \* the error the last call threw, NoError when it returned
    ret,      \* what the last call returned
    console,  \* how many lines the last call wrote with console.error
    last,     \* the last call: its name and arguments
    gone,     \* gone[s]: the observers detached from s and not attached to it since
    window,   \* the value of window.stores: a StoreStack instance, or not one
    stacks,   \* how many StoreStack instances have been constructed
    array     \* the array the caller keeps to pass as options.observers

vars == <<heap, store, stores, uuids, wrappers, held, calls, err, ret, console, last, gone,
          window, stacks, array>>

NoError == ""
NoPointer == -1
\* A Store that has not been constructed.
NoStore == [made |-> FALSE, state |-> P(0), observers |-> << >>]

\* The program's memory as one value m, threaded through the calls of a handler.
\* m.err is the exception in flight: a statement after a throw does not run.
\* m.val and m.obj hold the value and the Store an expression evaluated to.
Machine == [heap |-> heap, store |-> store, stores |-> stores, uuids |-> uuids,
            wrappers |-> wrappers, calls |-> << >>, err |-> NoError, console |-> 0,
            val |-> P(0), obj |-> 0, ret |-> NoPointer, window |-> window,
            stacks |-> stacks, depth |-> 0, array |-> array, arr |-> << >>]

Throw(m, e) == [m EXCEPT !.err = e]

\* ------------------------------------------------------------------ arrays
\* Array.prototype.includes / indexOf (0-based, -1 when absent) / splice(i, 1).
includes(arr, x) == \E i \in 1..Len(arr) : arr[i] = x

indexOf(arr, x) ==
    IF includes(arr, x)
    THEN (CHOOSE i \in 1..Len(arr) : arr[i] = x /\ \A j \in 1..(i - 1) : arr[j] # x) - 1
    ELSE -1

splice1(arr, i) == SubSeq(arr, 1, i) \o SubSeq(arr, i + 2, Len(arr))

\* ------------------------------------------------------------------ Store
\* A getter that hands out the internal value itself: the mutant of state.
state_uncopied(m, s) == [m EXCEPT !.val = m.store[s].state]

\* get state(): structuredClone(this.#state).  The copy is left in m.val.
state(m, s) ==
    LET c == structuredClone(m.heap, m.store[s].state)
    IN  [m EXCEPT !.heap = c.h, !.val = c.v]

\* constructor(state): this.#state = state.  The new instance is left in m.obj.
NextStore(m) == CHOOSE s \in StoreIds : ~m.store[s].made /\ \A t \in 1..(s - 1) : m.store[t].made

\* A constructor that does not assign its argument: the mutant of Store.
Store_unassigned(m, v) ==
    LET s == NextStore(m)
    IN  [m EXCEPT !.store[s] = [made |-> TRUE, state |-> P(0), observers |-> << >>],
                  !.obj = s]

Store(m, v) ==
    LET s == NextStore(m)
    IN  [m EXCEPT !.store[s] = [made |-> TRUE, state |-> v, observers |-> << >>],
                  !.obj = s]

\* An attach that pushes without looking: the mutant of attach.
attach_unchecked(m, s, o) == [m EXCEPT !.store[s].observers = Append(@, o)]

\* attach(observer)
attach(m, s, o) ==
    IF includes(m.store[s].observers, o)
    THEN Throw(m, "DuplicateObserverError")
    ELSE [m EXCEPT !.store[s].observers = Append(@, o)]

\* A detach that splices without looking, splice(-1, 1) removing the last element:
\* a mutant of detach.
detach_unchecked(m, s, o) ==
    LET observerIndex == indexOf(m.store[s].observers, o)
    IN  [m EXCEPT !.store[s].observers =
            splice1(@, IF observerIndex = -1 THEN Len(@) - 1 ELSE observerIndex)]

\* A detach that removes nothing, splice(observerIndex, 0): a mutant of detach.
detach_spliceNone(m, s, o) ==
    LET observerIndex == indexOf(m.store[s].observers, o)
    IN  IF observerIndex = -1 THEN Throw(m, "UnknownObserverError") ELSE m

\* detach(observer)
detach(m, s, o) ==
    LET observerIndex == indexOf(m.store[s].observers, o)
    IN  IF observerIndex = -1
        THEN Throw(m, "UnknownObserverError")
        ELSE [m EXCEPT !.store[s].observers = splice1(@, observerIndex)]

Succ(n) == (n + 1) % (MaxPrim + 1)

RECURSIVE set(_, _, _)
\* observer.update(subject): the observers of the tests and the StoreObserver of
\* useStore read subject.state; the invocation and the value read are logged.
\* The observer Thrower is one whose update throws: update(subject) { throw new
\* Error() }; it reads nothing, and P(0) stands for the value in the log.
\* The observers that call the subject back read subject.state first; a set they
\* call is a frame on the call stack, m.depth counting the frames of set under the
\* caller's.
update(m, o, s) ==
    IF o = Thrower
    THEN Throw([m EXCEPT !.calls = Append(@, [o |-> o, s |-> s, v |-> P(0)])], "Error")
    ELSE LET r == state(m, s)
             u == [r EXCEPT !.calls = Append(@, [o |-> o, s |-> s, v |-> r.val])]
         IN  CASE o = Detacher -> detach(u, s, Detacher)
               [] o = Remover ->
                     LET d == detach(u, s, 1) IN IF d.err # NoError THEN u ELSE d
               [] o = Attacher ->
                     LET a == attach(u, s, 1) IN IF a.err # NoError THEN u ELSE a
               [] o = Looper \/ (o = Clamp /\ r.val # P(1)) ->
                     IF m.depth >= MaxStack THEN Throw(u, "RangeError")
                     ELSE LET n == set([u EXCEPT !.depth = @ + 1], s,
                                       [fn |-> FALSE, u |-> "",
                                        v |-> IF o = Clamp THEN P(1) ELSE P(Succ(r.val.n))])
                          IN  [n EXCEPT !.depth = m.depth]
               [] OTHER -> u

RECURSIVE notifyFrom(_, _, _)
\* The array iterator of for (const observer of this.#observers): index i, compared
\* with the array's current length before each step.
notifyFrom(m, s, i) ==
    IF m.err # NoError \/ i >= Len(m.store[s].observers)
    THEN m
    ELSE notifyFrom(update(m, m.store[s].observers[i + 1], s), s, i + 1)

RECURSIVE notifyDownFrom(_, _, _)
notifyDownFrom(m, s, i) ==
    IF m.err # NoError \/ i < 1 \/ i > Len(m.store[s].observers)
    THEN m
    ELSE notifyDownFrom(update(m, m.store[s].observers[i], s), s, i - 1)

RECURSIVE notifyAllFrom(_, _, _)
notifyAllFrom(m, s, i) ==
    IF i >= Len(m.store[s].observers)
    THEN m
    ELSE notifyAllFrom(update(m, m.store[s].observers[i + 1], s), s, i + 1)

\* A notify that goes on to the next observer when an update throws, and throws
\* when it has called them all: a mutant of notify.
notify_isolated(m, s) == notifyAllFrom(m, s, 0)

RECURSIVE notifyOver(_, _, _, _)
notifyOver(m, s, arr, i) ==
    IF m.err # NoError \/ i >= Len(arr)
    THEN m
    ELSE notifyOver(update(m, arr[i + 1], s), s, arr, i + 1)

\* A notify that iterates over a copy of the array taken when it begins (for (const
\* observer of [...this.#observers])): a mutant of notify.
notify_snapshot(m, s) == notifyOver(m, s, m.store[s].observers, 0)

\* A notify that walks the array from its end: the mutant of notify.
notify_lastFirst(m, s) == notifyDownFrom(m, s, Len(m.store[s].observers))

\* notify()
notify(m, s) == notifyFrom(m, s, 0)

\* The updaters prevState => ... the caller passes to set, each with what it
\* computes on a value's structure:
\*   "inc"    adds one to the primitive: on an object, in place (prev.f.f += 1;
\*            return prev), so that it mutates the argument it was given;
\*   "wrap"   returns {f: prev};
\*   "unwrap" returns prev.f (prev itself when it is a primitive);
\*   "raise"  throws.
Updaters == {"inc", "wrap", "unwrap", "raise"}

UpdaterAbs(u, a) ==
    CASE u = "inc" -> [d |-> a.d, n |-> Succ(a.n)]
      [] u = "wrap" -> [d |-> a.d + 1, n |-> a.n]
      [] u = "unwrap" -> [d |-> IF a.d > 0 THEN a.d - 1 ELSE 0, n |-> a.n]

\* options(prevState): the value returned is left in m.val.
CallUpdater(m, u, prev) ==
    CASE u = "inc" ->
            IF prev.k = "p" THEN [m EXCEPT !.val = P(Succ(prev.n))]
            ELSE LET ch == Chain(m.heap, prev)
                     inner == ch[Len(ch)]
                 IN  [m EXCEPT !.heap[inner] = P(Succ(m.heap[inner].n)), !.val = prev]
      [] u = "wrap" ->
            [m EXCEPT !.heap = Append(@, prev), !.val = O(Len(m.heap) + 1)]
      [] u = "unwrap" ->
            [m EXCEPT !.val = IF prev.k = "p" THEN prev ELSE m.heap[prev.n]]
      [] u = "raise" -> Throw(m, "Error")

\* this.#state = v, in set.
assign(m, s, v) == [m EXCEPT !.store[s].state = v]

\* A set that stores the value it was given, not a copy of it: a mutant of set.
set_uncopied(m, s, options) ==
    IF options.fn
    THEN LET a == state(m, s)
             b == structuredClone(a.heap, a.val)
             r == CallUpdater([a EXCEPT !.heap = b.h], options.u, b.v)
         IN  IF r.err # NoError THEN r ELSE notify(assign(r, s, r.val), s)
    ELSE notify(assign(m, s, options.v), s)

\* A set with a re-entrancy guard, which returns at once when it is called from
\* inside an update: a mutant of set.
set_guarded(m, s, options) ==
    IF m.depth > 0 THEN m
    ELSE IF options.fn
    THEN LET a == state(m, s)
             b == structuredClone(a.heap, a.val)
             r == CallUpdater([a EXCEPT !.heap = b.h], options.u, b.v)
             c == structuredClone(r.heap, r.val)
         IN  IF r.err # NoError THEN r
             ELSE notify(assign([r EXCEPT !.heap = c.h], s, c.v), s)
    ELSE LET c == structuredClone(m.heap, options.v)
         IN  notify(assign([m EXCEPT !.heap = c.h], s, c.v), s)

\* A set that puts the previous state back when an observer throws: a mutant of
\* set.
set_rollback(m, s, options) ==
    LET n == IF options.fn
             THEN LET a == state(m, s)
                      b == structuredClone(a.heap, a.val)
                      r == CallUpdater([a EXCEPT !.heap = b.h], options.u, b.v)
                      c == structuredClone(r.heap, r.val)
                  IN  IF r.err # NoError THEN r
                      ELSE notify(assign([r EXCEPT !.heap = c.h], s, c.v), s)
             ELSE LET c == structuredClone(m.heap, options.v)
                  IN  notify(assign([m EXCEPT !.heap = c.h], s, c.v), s)
    IN  IF n.err # NoError THEN assign(n, s, m.store[s].state) ELSE n

\* A set that notifies before it assigns: a mutant of set.
set_notifyFirst(m, s, options) ==
    IF options.fn
    THEN LET n == notify(m, s)
             a == state(n, s)
             b == structuredClone(a.heap, a.val)
             r == CallUpdater([a EXCEPT !.heap = b.h], options.u, b.v)
             c == structuredClone(r.heap, r.val)
         IN  IF r.err # NoError THEN r ELSE assign([r EXCEPT !.heap = c.h], s, c.v)
    ELSE LET n == notify(m, s)
             c == structuredClone(n.heap, options.v)
         IN  assign([n EXCEPT !.heap = c.h], s, c.v)

\* set(options): options is the value (fn = FALSE, v) or the updater (fn = TRUE, u).
\*   function: this.#state = structuredClone(options(structuredClone(this.state)))
\*   value:    this.#state = structuredClone(options)
\* and then this.notify().
set(m, s, options) ==
    IF options.fn
    THEN LET a == state(m, s)
             b == structuredClone(a.heap, a.val)
             r == CallUpdater([a EXCEPT !.heap = b.h], options.u, b.v)
             c == structuredClone(r.heap, r.val)
         IN  IF r.err # NoError THEN r
             ELSE notify(assign([r EXCEPT !.heap = c.h], s, c.v), s)
    ELSE LET c == structuredClone(m.heap, options.v)
         IN  notify(assign([m EXCEPT !.heap = c.h], s, c.v), s)

\* ------------------------------------------------------------------ StoreStack
\* A pointer is a string: here 1..NumPointers are strings the caller makes up, the
\* numbers after them the strings crypto.randomUUID() returns, in the order it
\* returns them, and ToString the string "toString", a property every object
\* inherits from Object.prototype.
ToString == 0
Pointers == 0..(NumPointers + MaxUUIDs)
ProtoKeys == {ToString}

\* typeof x === "undefined"; what #stores = {} inherits is a function.
Undefined == 0
Inherited == -1
\* A value of window.stores for which instanceof StoreStack is false.
NotAStoreStack == -2

\* this.#stores[pointer]: the own property, else the inherited one.
Lookup(m, pointer) ==
    IF m.stores[pointer] # Undefined THEN m.stores[pointer]
    ELSE IF pointer \in ProtoKeys THEN Inherited ELSE Undefined

\* crypto.randomUUID(): a string no earlier call returned.  It is left in m.ret.
randomUUID(m) == [m EXCEPT !.uuids = @ + 1, !.ret = NumPointers + m.uuids + 1]

\* console.error(...)
consoleError(m) == [m EXCEPT !.console = @ + 1]

\* An addStore that returns the pointer without assigning: the mutant of addStore.
addStore_unassigned(m, newItem) == randomUUID(m)

\* addStore(newItem)
addStore(m, newItem) ==
    LET u == randomUUID(m)
    IN  [u EXCEPT !.stores[u.ret] = newItem]

\* An addStoreAtPointer that always assigns: the mutant of addStoreAtPointer.
addStoreAtPointer_overwrite(m, newItem, pointer, options) ==
    [m EXCEPT !.stores[pointer] = newItem]

\* An addStoreAtPointer that hands the observers of the store it replaces to the new
\* one: a mutant of addStoreAtPointer.
addStoreAtPointer_migrate(m, newItem, pointer, options) ==
    IF Lookup(m, pointer) # Undefined /\ ~options.override
    THEN Throw(IF options.verbose THEN consoleError(m) ELSE m, "MemoryAllocationError")
    ELSE IF m.stores[pointer] # Undefined
         THEN [m EXCEPT !.stores[pointer] = newItem,
                        !.store[newItem].observers = m.store[m.stores[pointer]].observers]
         ELSE [m EXCEPT !.stores[pointer] = newItem]

\* addStoreAtPointer(newItem, pointer, options?): an absent options, or an absent
\* override or verbose, is the flag FALSE.
addStoreAtPointer(m, newItem, pointer, options) ==
    IF Lookup(m, pointer) # Undefined /\ ~options.override
    THEN Throw(IF options.verbose THEN consoleError(m) ELSE m, "MemoryAllocationError")
    ELSE [m EXCEPT !.stores[pointer] = newItem]

RECURSIVE attachEach(_, _, _, _)
\* for (const observer of observers) this.#stores[pointer].attach(observer), from
\* the i-th observer on; the catch of upsert only throws the error again.
attachEach(m, pointer, observers, i) ==
    IF m.err # NoError \/ i > Len(observers) THEN m
    ELSE IF Lookup(m, pointer) = Inherited
         THEN Throw(m, "TypeError")
         ELSE attachEach(attach(m, Lookup(m, pointer), observers[i]), pointer, observers, i + 1)

\* An upsert that assigns defaultValue to the state of the store it finds: a mutant
\* of upsert.
upsert_update(m, defaultValue, pointer, observers) ==
    LET c == Store(m, defaultValue)
        m1 == IF Lookup(m, pointer) = Undefined
              THEN [c EXCEPT !.stores[pointer] = c.obj]
              ELSE IF Lookup(m, pointer) = Inherited THEN m
              ELSE [m EXCEPT !.store[Lookup(m, pointer)].state = defaultValue]
    IN  attachEach(m1, pointer, observers, 1)

\* upsert(defaultValue, pointer, ...observers)
upsert(m, defaultValue, pointer, observers) ==
    LET c == Store(m, defaultValue)
        m1 == IF Lookup(m, pointer) = Undefined
              THEN [c EXCEPT !.stores[pointer] = c.obj]
              ELSE m
    IN  attachEach(m1, pointer, observers, 1)

\* A removeStore that also detaches the observers of the store it removes: a mutant
\* of removeStore.
removeStore_dispose(m, ptr, options) ==
    IF Lookup(m, ptr) = Undefined
    THEN Throw(IF options.verbose THEN consoleError(m) ELSE m, "NullPointerError")
    ELSE IF m.stores[ptr] = Undefined THEN m
    ELSE [m EXCEPT !.stores[ptr] = Undefined, !.store[m.stores[ptr]].observers = << >>]

\* A removeStore that empties the registry (this.#stores = {}): a mutant of
\* removeStore.
removeStore_clear(m, ptr, options) ==
    IF Lookup(m, ptr) = Undefined
    THEN Throw(IF options.verbose THEN consoleError(m) ELSE m, "NullPointerError")
    ELSE [m EXCEPT !.stores = [p \in Pointers |-> Undefined]]

\* removeStore(ptr, options?)
removeStore(m, ptr, options) ==
    IF Lookup(m, ptr) = Undefined
    THEN Throw(IF options.verbose THEN consoleError(m) ELSE m, "NullPointerError")
    ELSE [m EXCEPT !.stores[ptr] = Undefined]

\* get(ptr): the Store is left in m.obj.
get(m, ptr) ==
    IF Lookup(m, ptr) # Undefined THEN [m EXCEPT !.obj = Lookup(m, ptr)]
    ELSE [m EXCEPT !.obj = Undefined]

\* A configure that always makes a new StoreStack: the mutant of configure.
configure_always(m) == [m EXCEPT !.stacks = @ + 1, !.window = m.stacks + 1]

\* static configure(): the StoreStack instances are numbered in the order they are
\* constructed, and m.window is the one at window.stores, Undefined when the
\* property is undefined, NotAStoreStack when its value is no StoreStack.
configure(m) ==
    IF m.window = Undefined \/ m.window = NotAStoreStack
    THEN [m EXCEPT !.stacks = @ + 1, !.window = m.stacks + 1]
    ELSE m

\* ------------------------------------------------------------------ useStore
\* new StoreObserver(): an observer whose update calls callback(subject.state).  The
\* instances are numbered after the caller's observers; the new one is left in m.obj.
StoreObserver(m, callback) ==
    [m EXCEPT !.wrappers = Append(@, callback), !.obj = NumObservers + Len(m.wrappers) + 1]

\* A catch that throws the error again whatever stopOnError is: a mutant of catch.
catch_rethrow(m, options) == IF options.verbose THEN consoleError(m) ELSE m

\* A catch that never throws the error again: a mutant of catch.
catch_swallow(m, options) ==
    [(IF options.verbose THEN consoleError(m) ELSE m) EXCEPT !.err = NoError]

\* observers.push(x), x the object in m.obj: the array is changed in place, and is
\* left in m.arr.
push(m, observers) == [m EXCEPT !.arr = Append(observers, m.obj)]

\* The catch blocks of useStore.
catch(m, options) ==
    LET logged == IF options.verbose THEN consoleError(m) ELSE m
    IN  IF options.stopOnError THEN logged ELSE [logged EXCEPT !.err = NoError]

RECURSIVE tryAttachEach(_, _, _, _, _)
\* for (const observer of observers) { try { store.attach(observer) } catch ... }
tryAttachEach(m, s, observers, i, options) ==
    IF m.err # NoError \/ i > Len(observers) THEN m
    ELSE LET a == attach(m, s, observers[i])
         IN  tryAttachEach(IF a.err # NoError THEN catch(a, options) ELSE a,
                           s, observers, i + 1, options)

\* A useStore that notifies the store once it has attached the observers, as a
\* subject that replays its value to a new subscriber does: a mutant of useStore.
useStore_notifying(m, st, options) ==
    IF options.given
    THEN LET m0 == IF options.pointer = NoPointer THEN randomUUID(m) ELSE m
             pointer == IF options.pointer = NoPointer THEN m0.ret ELSE options.pointer
             w == push(StoreObserver(m0, options.onChange), options.observers)
             observers == w.arr
         IN  IF options.override
             THEN LET c == Store(w, st)
                      a == tryAttachEach(c, c.obj, observers, 1, options)
                      r == addStoreAtPointer(a, c.obj, pointer,
                                             [override |-> TRUE, verbose |-> FALSE])
                  IN  IF a.err # NoError THEN a ELSE [r EXCEPT !.ret = pointer]
             ELSE LET u == upsert(w, st, pointer, observers)
                      h == IF u.err # NoError THEN catch(u, options) ELSE u
                  IN  IF h.err # NoError THEN h
                      ELSE IF Lookup(h, pointer) \in StoreIds
                           THEN [notify(h, Lookup(h, pointer)) EXCEPT !.ret = pointer]
                           ELSE [h EXCEPT !.ret = pointer]
    ELSE LET c == Store(m, st)
         IN  addStore(c, c.obj)

\* A useStore that returns options.pointer instead of the pointer it resolved: a
\* mutant of useStore.
useStore_returnOption(m, st, options) ==
    IF options.given
    THEN LET m0 == IF options.pointer = NoPointer THEN randomUUID(m) ELSE m
             pointer == IF options.pointer = NoPointer THEN m0.ret ELSE options.pointer
             w == push(StoreObserver(m0, options.onChange), options.observers)
             observers == w.arr
         IN  IF options.override
             THEN LET c == Store(w, st)
                      a == tryAttachEach(c, c.obj, observers, 1, options)
                      r == addStoreAtPointer(a, c.obj, pointer,
                                             [override |-> TRUE, verbose |-> FALSE])
                  IN  IF a.err # NoError THEN a ELSE [r EXCEPT !.ret = options.pointer]
             ELSE LET u == upsert(w, st, pointer, observers)
                      h == IF u.err # NoError THEN catch(u, options) ELSE u
                  IN  IF h.err # NoError THEN h ELSE [h EXCEPT !.ret = options.pointer]
    ELSE LET c == Store(m, st)
         IN  addStore(c, c.obj)

\* A useStore that puts the StoreObserver before the observers it was given: the
\* mutant of useStore.
useStore_wrapperFirst(m, st, options) ==
    IF options.given
    THEN LET m0 == IF options.pointer = NoPointer THEN randomUUID(m) ELSE m
             pointer == IF options.pointer = NoPointer THEN m0.ret ELSE options.pointer
             w == StoreObserver(m0, options.onChange)
             observers == <<w.obj>> \o options.observers
         IN  IF options.override
             THEN LET c == Store(w, st)
                      a == tryAttachEach(c, c.obj, observers, 1, options)
                      r == addStoreAtPointer(a, c.obj, pointer,
                                             [override |-> TRUE, verbose |-> FALSE])
                  IN  IF a.err # NoError THEN a ELSE [r EXCEPT !.ret = pointer]
             ELSE LET u == upsert(w, st, pointer, observers)
                      h == IF u.err # NoError THEN catch(u, options) ELSE u
                  IN  IF h.err # NoError THEN h ELSE [h EXCEPT !.ret = pointer]
    ELSE LET c == Store(m, st)
         IN  addStore(c, c.obj)

\* A useStore that, with override, puts the new store at the pointer before it
\* attaches the observers: a mutant of useStore.
useStore_insertFirst(m, st, options) ==
    IF options.given
    THEN LET m0 == IF options.pointer = NoPointer THEN randomUUID(m) ELSE m
             pointer == IF options.pointer = NoPointer THEN m0.ret ELSE options.pointer
             w == push(StoreObserver(m0, options.onChange), options.observers)
             observers == w.arr
         IN  IF options.override
             THEN LET c == Store(w, st)
                      r == addStoreAtPointer(c, c.obj, pointer,
                                             [override |-> TRUE, verbose |-> FALSE])
                      a == tryAttachEach(r, c.obj, observers, 1, options)
                  IN  IF a.err # NoError THEN a ELSE [a EXCEPT !.ret = pointer]
             ELSE LET u == upsert(w, st, pointer, observers)
                      h == IF u.err # NoError THEN catch(u, options) ELSE u
                  IN  IF h.err # NoError THEN h ELSE [h EXCEPT !.ret = pointer]
    ELSE LET c == Store(m, st)
         IN  addStore(c, c.obj)

\* useStore(state, options?).  options.given says whether options was passed;
\* options.pointer is NoPointer and options.onChange is 0 when absent; an absent
\* observers is << >>, an absent flag FALSE.
useStore(m, st, options) ==
    IF options.given
    THEN LET m0 == IF options.pointer = NoPointer THEN randomUUID(m) ELSE m
             pointer == IF options.pointer = NoPointer THEN m0.ret ELSE options.pointer
             w == push(StoreObserver(m0, options.onChange), options.observers)
             observers == w.arr
         IN  IF options.override
             THEN LET c == Store(w, st)
                      a == tryAttachEach(c, c.obj, observers, 1, options)
                      r == addStoreAtPointer(a, c.obj, pointer,
                                             [override |-> TRUE, verbose |-> FALSE])
                  IN  IF a.err # NoError THEN a ELSE [r EXCEPT !.ret = pointer]
             ELSE LET u == upsert(w, st, pointer, observers)
                      h == IF u.err # NoError THEN catch(u, options) ELSE u
                  IN  IF h.err # NoError THEN h ELSE [h EXCEPT !.ret = pointer]
    ELSE LET c == Store(m, st)
         IN  addStore(c, c.obj)

\* ------------------------------------------------------------------ memory
\* Objects no variable reaches are collected, and the objects that remain are
\* numbered in the order the roots reach them: an object's index carries no
\* information beyond which references are the same object.
Roots(m, hd) ==
    [i \in 1..NumStores |-> m.store[i].state]
    \o [i \in 1..NumHeld |-> hd[i].val]
    \o [i \in 1..Len(m.calls) |-> m.calls[i].v]

AddNew(acc, ch) == acc \o SelectSeq(ch, LAMBDA x : ~includes(acc, x))

RECURSIVE Reach(_, _, _)
Reach(h, roots, acc) ==
    IF roots = << >> THEN acc
    ELSE Reach(h, Tail(roots), AddNew(acc, Chain(h, Head(roots))))

Renamed(ord, v) == IF v.k = "p" THEN v ELSE O(indexOf(ord, v.n) + 1)

\* What the caller knows of its detach calls: a detach of o from s that returned puts
\* o in gone[s], and o leaves gone[s] when it enters the observers of s.
Gone(m, c) ==
    [s \in StoreIds |->
        (gone[s] \cup (IF c.op = "detach" /\ c.s = s /\ m.err = NoError THEN {c.o} ELSE {}))
        \ {o \in gone[s] \cup {c.o} :
              includes(m.store[s].observers, o) /\ ~includes(store[s].observers, o)}]

\* The step to the memory m a call leaves (a call that throws leaves the memory as
\* the statements before the throw made it), the caller's variables hd and the
\* record c of the call.
Commit(m, hd, c) ==
    LET ord == Reach(m.heap, Roots(m, hd), << >>)
    IN  /\ heap' = [i \in 1..Len(ord) |-> Renamed(ord, m.heap[ord[i]])]
        /\ store' = [s \in StoreIds |-> [m.store[s] EXCEPT !.state = Renamed(ord, @)]]
        /\ stores' = m.stores
        /\ uuids' = m.uuids
        /\ wrappers' = m.wrappers
        /\ held' = [k \in Slots |-> [hd[k] EXCEPT !.val = Renamed(ord, @)]]
        /\ calls' = [i \in 1..Len(m.calls) |-> [m.calls[i] EXCEPT !.v = Renamed(ord, @)]]
        /\ err' = m.err
        /\ ret' = m.ret
        /\ console' = m.console
        /\ last' = c
        /\ gone' = Gone(m, c)
        /\ window' = m.window
        /\ stacks' = m.stacks
        /\ array' = m.array

\* The record of a call: op its name, s the store, o the observer, k the caller's
\* variable and u the updater it was given, p the pointer, override and verbose the
\* flags of its options.
NoCall == [op |-> "none", s |-> 0, o |-> 0, k |-> 0, u |-> "", p |-> NoPointer,
           override |-> FALSE, verbose |-> FALSE]

Made == {s \in StoreIds : store[s].made}
HasRoom == \E s \in StoreIds : ~store[s].made

\* ------------------------------------------------------------------ the caller
\* The caller's variables: held[k].val is the value, held[k].from the store it was
\* read from with s.state (0: the caller wrote it), held[k].given the store the
\* value was passed to with s.set(x) (0: none) since the variable was last written.
\* x = {f: {f: n}}: the caller writes a literal into one of its variables.
Build(k, d, n) ==
    LET l == Literal(heap, d, n)
    IN  Commit([Machine EXCEPT !.heap = l.h],
               [held EXCEPT ![k] = [val |-> l.v, from |-> 0, given |-> 0]],
               [NoCall EXCEPT !.op = "build", !.k = k])

\* x.f = n, x.f.f = n: the caller assigns a primitive to the field of an object it
\* reaches from one of its variables.
Mutate(k, lvl, n) ==
    LET ch == Chain(heap, held[k].val)
    IN  /\ lvl <= Len(ch)
        /\ heap[ch[lvl]] # P(n)
        /\ Commit([Machine EXCEPT !.heap[ch[lvl]] = P(n)], held,
                  [NoCall EXCEPT !.op = "mutate", !.k = k])

\* new Store(x)
New(k) ==
    /\ HasRoom
    /\ LET m == Store(Machine, held[k].val)
       IN  Commit(m, held, [NoCall EXCEPT !.op = "new", !.k = k, !.s = m.obj])

\* new Store({f: n})
NewStore(d, n) ==
    /\ HasRoom
    /\ LET l == Literal(heap, d, n)
           m == Store([Machine EXCEPT !.heap = l.h], l.v)
       IN  Commit(m, held, [NoCall EXCEPT !.op = "new", !.s = m.obj])

\* x = s.state
ReadState(s, k) ==
    /\ s \in Made
    /\ LET m == state(Machine, s)
       IN  Commit(m, [held EXCEPT ![k] = [val |-> m.val, from |-> s, given |-> 0]],
                  [NoCall EXCEPT !.op = "state", !.s = s, !.k = k])

\* s.set(x)
SetValue(s, k) ==
    /\ s \in Made
    /\ Commit(set(Machine, s, [fn |-> FALSE, v |-> held[k].val, u |-> ""]),
              [held EXCEPT ![k].given = s],
              [NoCall EXCEPT !.op = "set", !.s = s, !.k = k])

\* s.set({f: n})
Set(s, d, n) ==
    /\ s \in Made
    /\ LET l == Literal(heap, d, n)
       IN  Commit(set([Machine EXCEPT !.heap = l.h], s, [fn |-> FALSE, v |-> l.v, u |-> ""]),
                  held, [NoCall EXCEPT !.op = "set", !.s = s])

\* s.set(prevState => ...)
SetUpdater(s, u) ==
    /\ s \in Made
    /\ u = "wrap" => Abs(heap, store[s].state).d < MaxDepth
    /\ Commit(set(Machine, s, [fn |-> TRUE, v |-> P(0), u |-> u]), held,
              [NoCall EXCEPT !.op = "set", !.s = s, !.u = u])

\* s.attach(o)
Attach(s, o) ==
    /\ s \in Made
    /\ Commit(attach(Machine, s, o), held, [NoCall EXCEPT !.op = "attach", !.s = s, !.o = o])

\* s.detach(o)
Detach(s, o) ==
    /\ s \in Made
    /\ Commit(detach(Machine, s, o), held, [NoCall EXCEPT !.op = "detach", !.s = s, !.o = o])

\* s.notify()
Notify(s) ==
    /\ s \in Made
    /\ Commit(notify(Machine, s), held, [NoCall EXCEPT !.op = "notify", !.s = s])

\* The state when the module has been loaded: no Store yet, the registry empty.
Init ==
    /\ heap = << >>
    /\ store = [s \in StoreIds |-> NoStore]
    /\ stores = [p \in Pointers |-> Undefined]
    /\ uuids = 0
    /\ wrappers = << >>
    /\ held = [k \in Slots |-> [val |-> P(0), from |-> 0, given |-> 0]]
    /\ calls = << >>
    /\ err = NoError
    /\ ret = NoPointer
    /\ console = 0
    /\ last = NoCall
    /\ gone = [s \in StoreIds |-> {}]
    /\ window = 1
    /\ stacks = 1
    /\ array = << >>

\* One Store used on its own, its state a structured value: the caller keeps
\* references to the values it passes in and to the snapshots it reads.
NextState ==
    \/ \E k \in Slots, d \in 0..MaxDepth, n \in Prims : Build(k, d, n)
    \/ \E k \in Slots, lvl \in 1..MaxDepth, n \in Prims : Mutate(k, lvl, n)
    \/ \E k \in Slots : ~store[1].made /\ New(k)
    \/ \E k \in Slots : ReadState(1, k)
    \/ \E k \in Slots : SetValue(1, k)
    \/ \E u \in Updaters : SetUpdater(1, u)

SpecState == Init /\ [][NextState]_vars

\* One Store and the caller's observers.
NextObservers ==
    \/ \E d \in 0..MaxDepth, n \in Prims : ~store[1].made /\ NewStore(d, n)
    \/ \E d \in 0..MaxDepth, n \in Prims : Set(1, d, n)
    \/ \E u \in Updaters : SetUpdater(1, u)
    \/ \E o \in Observers : Attach(1, o)
    \/ \E o \in Observers : Detach(1, o)
    \/ Notify(1)

SpecObservers == Init /\ [][NextObservers]_vars

\* One Store and the caller's observers, one of which throws from update.
NextThrowing ==
    \/ \E n \in Prims : ~store[1].made /\ NewStore(0, n)
    \/ \E n \in Prims : Set(1, 0, n)
    \/ \E o \in Observers \cup {Thrower} : Attach(1, o)
    \/ \E o \in Observers \cup {Thrower} : Detach(1, o)
    \/ Notify(1)

SpecThrowing == Init /\ [][NextThrowing]_vars

\* One Store and the caller's observers, among them those whose update calls set
\* on the subject.
NextReentrant ==
    \/ \E n \in Prims : ~store[1].made /\ NewStore(0, n)
    \/ \E n \in Prims : Set(1, 0, n)
    \/ \E o \in {1, 2, Looper, Clamp} : Attach(1, o)
    \/ \E o \in {1, 2, Looper, Clamp} : Detach(1, o)
    \/ Notify(1)

SpecReentrant == Init /\ [][NextReentrant]_vars

\* One Store and the caller's observers, among them those whose update detaches an
\* observer from the subject.
NextDetaching ==
    \/ \E n \in Prims : ~store[1].made /\ NewStore(0, n)
    \/ \E n \in Prims : Set(1, 0, n)
    \/ \E o \in {1, 2, Detacher, Remover} : Attach(1, o)
    \/ \E o \in {1, 2, Detacher, Remover} : Detach(1, o)
    \/ Notify(1)

SpecDetaching == Init /\ [][NextDetaching]_vars

\* One Store and the caller's observers, among them the one whose update attaches
\* an observer to the subject.
NextAttaching ==
    \/ \E n \in Prims : ~store[1].made /\ NewStore(0, n)
    \/ \E n \in Prims : Set(1, 0, n)
    \/ \E o \in {1, 2, 3, Attacher} : Attach(1, o)
    \/ \E o \in {1, 2, 3, Attacher} : Detach(1, o)
    \/ Notify(1)

SpecAttaching == Init /\ [][NextAttaching]_vars

\* ------------------------------------------------------------------ the registry
\* The pointers the caller can name: those it makes up and those it was returned.
Known == 1..(NumPointers + uuids)

\* The observer the caller shares between the stores of the registry, and the
\* observer arrays it passes to upsert and useStore.
Shared == {1}
ObserverLists == {<< >>, <<1>>, <<1, 1>>}

\* The errorHandling the caller passes to useStore: absent, or as the tests pass it.
ErrorHandlings == {[verbose |-> FALSE, stopOnError |-> FALSE],
                   [verbose |-> TRUE, stopOnError |-> TRUE]}

Flags == {[override |-> o, verbose |-> v] : o \in BOOLEAN, v \in BOOLEAN}

\* Stores.addStore(s)
AddStore(s) ==
    /\ s \in Made
    /\ uuids < MaxUUIDs
    /\ Commit(addStore(Machine, s), held, [NoCall EXCEPT !.op = "addStore", !.s = s])

\* Stores.addStoreAtPointer(s, p, options)
AddStoreAtPointer(s, p, options) ==
    /\ s \in Made
    /\ Commit(addStoreAtPointer(Machine, s, p, options), held,
              [NoCall EXCEPT !.op = "addStoreAtPointer", !.s = s, !.p = p,
                             !.override = options.override, !.verbose = options.verbose])

\* Stores.upsert(n, p, ...observers)
Upsert(n, p, observers) ==
    /\ Lookup(Machine, p) = Undefined => HasRoom
    /\ Commit(upsert(Machine, P(n), p, observers), held,
              [NoCall EXCEPT !.op = "upsert", !.p = p])

\* Stores.removeStore(p, options)
RemoveStore(p, options) ==
    Commit(removeStore(Machine, p, options), held,
           [NoCall EXCEPT !.op = "removeStore", !.p = p, !.verbose = options.verbose])

\* Stores.get(p)
Get(p) ==
    LET m == get(Machine, p)
    IN  Commit([m EXCEPT !.ret = m.obj], held, [NoCall EXCEPT !.op = "get", !.p = p])

\* useStore(n)
UseStore(n) ==
    /\ HasRoom
    /\ uuids < MaxUUIDs
    /\ Commit(useStore(Machine, P(n), [given |-> FALSE]), held,
              [NoCall EXCEPT !.op = "useStore"])

\* useStore(n, {pointer, onChange, observers, override, errorHandling})
UseStoreWith(n, p, cb, observers, override, eh) ==
    /\ Len(wrappers) < MaxWrappers
    /\ p = NoPointer => uuids < MaxUUIDs
    /\ (override \/ p = NoPointer \/ Lookup(Machine, p) = Undefined) => HasRoom
    /\ Commit(useStore(Machine, P(n),
                       [given |-> TRUE, pointer |-> p, onChange |-> cb,
                        observers |-> observers, override |-> override,
                        verbose |-> eh.verbose, stopOnError |-> eh.stopOnError]),
              held, [NoCall EXCEPT !.op = "useStore", !.p = p, !.override = override,
                                   !.verbose = eh.verbose])

\* The whole API: the stores, the registry Stores and useStore.
Next ==
    \/ \E n \in Prims : NewStore(0, n)
    \/ \E s \in StoreIds, n \in Prims : Set(s, 0, n)
    \/ \E s \in StoreIds, o \in Shared : Attach(s, o)
    \/ \E s \in StoreIds, o \in Shared : Detach(s, o)
    \/ \E s \in StoreIds : Notify(s)
    \/ \E s \in StoreIds : AddStore(s)
    \/ \E s \in StoreIds, p \in Known, options \in Flags : AddStoreAtPointer(s, p, options)
    \/ \E n \in Prims, p \in Known, observers \in ObserverLists : Upsert(n, p, observers)
    \/ \E p \in Known, v \in BOOLEAN : RemoveStore(p, [verbose |-> v])
    \/ \E p \in Known : Get(p)
    \/ \E n \in Prims : UseStore(n)
    \/ \E n \in Prims, p \in Known \cup {NoPointer}, cb \in 0..1,
          observers \in ObserverLists, override \in BOOLEAN, eh \in ErrorHandlings :
            UseStoreWith(n, p, cb, observers, override, eh)

Spec == Init /\ [][Next]_vars

\* ------------------------------------------------------------------ the pointers
\* The pointers the caller can name, a pointer being any string: the strings it
\* makes up, those it was returned, and "toString".
Named == {ToString} \cup Known

\* The arrays of observers the caller passes to upsert and useStore.
ObserverArrays == {<< >>, <<2, 1>>, <<1, 1, 2>>}

\* The options the caller passes to addStoreAtPointer: override or not.
Overrides == {[override |-> o, verbose |-> FALSE] : o \in BOOLEAN}

\* useStore(n, {pointer: p, observers, override}): the caller names the pointer and
\* passes neither onChange nor errorHandling.
UseStoreAt(n, p, observers, override) ==
    /\ Len(wrappers) < MaxCalls
    /\ (override \/ Lookup(Machine, p) = Undefined) => HasRoom
    /\ Commit(useStore(Machine, P(n),
                       [given |-> TRUE, pointer |-> p, onChange |-> 0,
                        observers |-> observers, override |-> override,
                        verbose |-> FALSE, stopOnError |-> FALSE]),
              held, [NoCall EXCEPT !.op = "useStore", !.p = p, !.override = override])

\* The registry Stores, the stores in it and useStore without options.
NextRegistry ==
    \/ \E n \in Prims : NewStore(0, n)
    \/ \E s \in StoreIds, n \in Prims : Set(s, 0, n)
    \/ \E s \in StoreIds : AddStore(s)
    \/ \E s \in StoreIds, p \in Named, options \in Overrides : AddStoreAtPointer(s, p, options)
    \/ \E n \in Prims, p \in Named, observers \in ObserverArrays : Upsert(n, p, observers)
    \/ \E p \in Named, v \in BOOLEAN : RemoveStore(p, [verbose |-> v])
    \/ \E p \in Named : Get(p)
    \/ \E n \in Prims : UseStore(n)

SpecRegistry == Init /\ [][NextRegistry]_vars

\* useStore called with a pointer the caller names, and the stores it makes used
\* through Stores.get.
NextUseStore ==
    \/ \E n \in Prims, p \in Named, observers \in ObserverArrays, override \in BOOLEAN :
          UseStoreAt(n, p, observers, override)
    \/ \E s \in StoreIds, n \in Prims : Set(s, 0, n)
    \/ \E p \in Named : Get(p)

SpecUseStore == Init /\ [][NextUseStore]_vars

\* The operations that write the registry, useStore with a pointer among them, on
\* stores the caller also inserts at several pointers.
NextFrame ==
    \/ \E n \in Prims : NewStore(0, n)
    \/ \E s \in StoreIds : AddStore(s)
    \/ \E s \in StoreIds, p \in Named, options \in Overrides : AddStoreAtPointer(s, p, options)
    \/ \E n \in Prims, p \in Named, observers \in ObserverLists : Upsert(n, p, observers)
    \/ \E p \in Named : RemoveStore(p, [verbose |-> FALSE])
    \/ \E n \in Prims : UseStore(n)
    \/ \E n \in Prims, p \in Named \cup {NoPointer}, observers \in ObserverLists,
          override \in BOOLEAN :
            UseStoreWith(n, p, 0, observers, override, [verbose |-> FALSE, stopOnError |-> FALSE])

SpecFrame == Init /\ [][NextFrame]_vars

\* ------------------------------------------------------------------ options
\* const observers = [...]: the caller builds the array it will pass.
NewArray(observers) ==
    /\ array # observers
    /\ Commit([Machine EXCEPT !.array = observers], held, [NoCall EXCEPT !.op = "array"])

\* useStore(n, {pointer: p, observers, override}), observers being the array the
\* caller keeps: what useStore pushed onto it is in it after the call.
UseStoreArray(n, p, override) ==
    /\ Len(wrappers) < MaxCalls
    /\ (override \/ Lookup(Machine, p) = Undefined) => HasRoom
    /\ LET m == useStore(Machine, P(n),
                         [given |-> TRUE, pointer |-> p, onChange |-> 1,
                          observers |-> array, override |-> override,
                          verbose |-> FALSE, stopOnError |-> FALSE])
       IN  Commit([m EXCEPT !.array = m.arr], held,
                  [NoCall EXCEPT !.op = "useStore", !.p = p, !.override = override])

\* useStore called again and again with the array of observers the caller keeps.
NextArray ==
    \/ \E observers \in {<< >>, <<1>>, <<2, 1>>} : NewArray(observers)
    \/ \E n \in Prims, p \in Known, override \in BOOLEAN : UseStoreArray(n, p, override)
    \/ \E s \in StoreIds, n \in Prims : Set(s, 0, n)
    \/ \E p \in Known : Get(p)

SpecArray == Init /\ [][NextArray]_vars

\* ------------------------------------------------------------------ window.stores
\* StoreStack.configure()
Configure ==
    /\ window \in 1..stacks \/ stacks < MaxStacks
    /\ Commit(configure(Machine), held, [NoCall EXCEPT !.op = "configure"])

\* window.stores = v: the page assigns the property: undefined, or a value that is
\* no StoreStack.
AssignWindowStores(v) ==
    /\ window # v
    /\ Commit([Machine EXCEPT !.window = v], held, [NoCall EXCEPT !.op = "assign"])

\* What window.stores holds when it is a StoreStack: instance 1 is the one the
\* module bound to Stores when it was loaded and stores its #stores; the instances
\* configure makes later are reached through window.stores only, which nothing here
\* writes to.
WindowStores ==
    IF window = 1 THEN stores ELSE [p \in Pointers |-> Undefined]

\* The registry used through Stores while the page also calls configure and
\* assigns window.stores.
NextConfigure ==
    \/ Configure
    \/ \E v \in {Undefined, NotAStoreStack} : AssignWindowStores(v)
    \/ \E n \in Prims : NewStore(0, n)
    \/ \E s \in StoreIds : AddStore(s)
    \/ \E s \in StoreIds, p \in Known, options \in Overrides : AddStoreAtPointer(s, p, options)
    \/ \E p \in Known : RemoveStore(p, [verbose |-> FALSE])
    \/ \E n \in Prims : UseStore(n)

SpecConfigure == Init /\ [][NextConfigure]_vars

\* ------------------------------------------------------------------ error handling
\* The errorHandling the caller passes to useStore: each flag absent or set.
Handlings == {[verbose |-> v, stopOnError |-> e] : v \in BOOLEAN, e \in BOOLEAN}

\* useStore called with every option, the pointer any string or absent, on a
\* registry the caller fills with upsert.
NextHandling ==
    \/ \E n \in Prims, p \in Named, observers \in ObserverLists : Upsert(n, p, observers)
    \/ \E n \in Prims, p \in Named \cup {NoPointer}, cb \in 0..1,
          observers \in ObserverLists, override \in BOOLEAN, eh \in Handlings :
            UseStoreWith(n, p, cb, observers, override, eh)
    \/ \E s \in StoreIds, n \in Prims : Set(s, 0, n)
    \/ \E p \in Named : Get(p)

SpecHandling == Init /\ [][NextHandling]_vars

\* ------------------------------------------------------------------ properties
\* What s.state returns, as deep equality sees it (r ranges over the one memory the
\* getter leaves).
ReadAbs(s) == CHOOSE a \in {Abs(r.heap, r.val) : r \in {state(Machine, s)}} : TRUE

\* The structure of the caller's variable k.
HeldAbs(k) == Abs(heap, held[k].val)

\* The observers whose update was invoked by the last call, in the order of the calls.
Invoked == [i \in 1..Len(calls) |-> calls[i].o]

\* arr without x, the order of the rest kept.
Without(arr, x) == SelectSeq(arr, LAMBDA y : y # x)

NoDuplicates(arr) == \A i, j \in 1..Len(arr) : arr[i] = arr[j] => i = j

\* C1: when the caller mutates a value that s.state returned, what s.state returns
\* afterwards is what it returned before, and every other value s.state returned
\* keeps its content.
C1_Isolation ==
    [][\A k \in Slots, s \in StoreIds :
          (last'.op = "mutate" /\ last'.k = k /\ held[k].from = s) =>
             /\ ReadAbs(s)' = ReadAbs(s)
             /\ \A j \in Slots \ {k} : held[j].from # 0 => HeldAbs(j)' = HeldAbs(j)]_vars

\* A snapshot has been mutated and now differs from the state, which another
\* snapshot, an object, still equals.
C1_Witness ==
    /\ last.op = "mutate"
    /\ held[last.k].from = 1
    /\ HeldAbs(last.k) # ReadAbs(1)
    /\ \E j \in Slots \ {last.k} :
          held[j].from = 1 /\ held[j].val.k = "o" /\ HeldAbs(j) = ReadAbs(1)

\* C2: after s.set(v), s.set(prev => f(prev)) leaves the state f(state), and the
\* updater's mutation of prev changes neither v nor any value s.state returned.
C2_CopyOnWrite ==
    [][\A s \in StoreIds, u \in Updaters :
          (last'.op = "set" /\ last'.s = s /\ last'.u = u /\ err' = NoError
             /\ \E k \in Slots : held[k].given = s) =>
             /\ ReadAbs(s)' = UpdaterAbs(u, ReadAbs(s))
             /\ \A k \in Slots : HeldAbs(k)' = HeldAbs(k)]_vars

\* The updater that mutates prev has run after set(v), v an object: the state is
\* f(v), v is what it was, and the caller holds a snapshot as well.
C2_Witness ==
    /\ last.op = "set"
    /\ last.u = "inc"
    /\ err = NoError
    /\ \E k \in Slots :
          /\ held[k].given = 1
          /\ held[k].val.k = "o"
          /\ ReadAbs(1) = UpdaterAbs("inc", HeldAbs(k))
          /\ \E j \in Slots \ {k} : held[j].from = 1 /\ held[j].val.k = "o"

\* C3: s.set(v) leaves the state equal to v, and the state is a copy: when the
\* caller mutates v afterwards, s.state returns what it returned before.
C3_ValueForm ==
    [][\A k \in Slots, s \in StoreIds :
          /\ (last'.op = "set" /\ last'.s = s /\ last'.k = k) =>
                /\ ReadAbs(s)' = HeldAbs(k)
                /\ HeldAbs(k)' = HeldAbs(k)
          /\ (last'.op = "mutate" /\ last'.k = k /\ held[k].given = s) =>
                ReadAbs(s)' = ReadAbs(s)]_vars

\* The caller has mutated the object it had passed to set, and the state is an
\* object that differs from it.
C3_Witness ==
    /\ last.op = "mutate"
    /\ held[last.k].given = 1
    /\ held[last.k].val.k = "o"
    /\ store[1].state.k = "o"
    /\ HeldAbs(last.k) # ReadAbs(1)

\* C4: attach puts the observer after those attached before it, and set and notify
\* invoke update on the attached observers in that order, once each.
C4_NotificationOrder ==
    [][/\ (last'.op = "attach" /\ err' = NoError) =>
             store'[last'.s].observers = Append(store[last'.s].observers, last'.o)
       /\ (last'.op \in {"set", "notify"} /\ err' = NoError) =>
             /\ Invoked' = store[last'.s].observers
             /\ \A o \in Observers :
                   includes(store[last'.s].observers, o) =>
                      Cardinality({i \in 1..Len(calls') : calls'[i].o = o}) = 1]_vars

\* Three observers, attached in an order that is not the order of their names, have
\* been notified by set.
C4_Witness ==
    /\ last.op = "set"
    /\ Len(calls) = 3
    /\ calls[1].o > calls[2].o

\* The state of s is a, every observer of s has been invoked in order, and each
\* read a value equal to a that shares no object with the state or with the value
\* another observer read.
Notified(s, a) ==
    /\ ReadAbs(s)' = a
    /\ store'[s].observers = store[s].observers
    /\ Invoked' = store[s].observers
    /\ \A i \in 1..Len(calls') :
          /\ calls'[i].s = s
          /\ Abs(heap', calls'[i].v) = a
          /\ Objs(heap', calls'[i].v) \cap Objs(heap', store'[s].state) = {}
          /\ \A j \in 1..Len(calls') :
                j # i => Objs(heap', calls'[i].v) \cap Objs(heap', calls'[j].v) = {}

\* C5: set, with a value or with an updater, replaces the state and then invokes
\* every attached observer before it returns; an observer that reads subject.state
\* in update gets a copy of the new state.
C5_SetNotifies ==
    [][/\ \A d \in 0..MaxDepth, n \in Prims :
             Set(1, d, n) => Notified(1, [d |-> d, n |-> n])
       /\ \A u \in Updaters :
             (SetUpdater(1, u) /\ err' = NoError) => Notified(1, UpdaterAbs(u, ReadAbs(1)))]_vars

\* set has replaced an object state, and two observers each read their own copy.
C5_Witness ==
    /\ last.op = "set"
    /\ err = NoError
    /\ Len(calls) >= 2
    /\ calls[1].v.k = "o"
    /\ calls[1].v # calls[2].v
    /\ Abs(heap, calls[1].v) = ReadAbs(1)

\* C6: attach of an observer that is attached fails with DuplicateObserverError and
\* leaves the observer list as it was.
C6_DuplicateAttach ==
    [][(last'.op = "attach" /\ includes(store[last'.s].observers, last'.o)) =>
          /\ err' = "DuplicateObserverError"
          /\ store' = store]_vars

\* A second attach of an observer has failed on a store with two observers.
C6_Witness ==
    /\ last.op = "attach"
    /\ err = "DuplicateObserverError"
    /\ Len(store[last.s].observers) >= 2
    /\ includes(store[last.s].observers, last.o)

\* C7: no store's observer list holds an observer twice, whatever calls of attach,
\* detach, set, notify, upsert, addStore, addStoreAtPointer, removeStore and
\* useStore were made, the failing ones included.
C7_NoDuplicateObservers == \A s \in StoreIds : NoDuplicates(store[s].observers)

\* A call of the registry given an observer twice has failed on a store that has
\* two observers.
C7_Witness ==
    /\ last.op \in {"upsert", "useStore"}
    /\ err = "DuplicateObserverError"
    /\ \E s \in StoreIds : Len(store[s].observers) = 2

\* C8: detach of an observer that is not attached fails with UnknownObserverError
\* and leaves the observer list as it was.
C8_UnknownDetach ==
    [][(last'.op = "detach" /\ ~includes(store[last'.s].observers, last'.o)) =>
          /\ err' = "UnknownObserverError"
          /\ store' = store]_vars

\* A detach of an observer that is not attached has failed on a store that has
\* observers.
C8_Witness ==
    /\ last.op = "detach"
    /\ err = "UnknownObserverError"
    /\ Len(store[last.s].observers) >= 2
    /\ ~includes(store[last.s].observers, last.o)

\* C9: detach(o) removes o and keeps the order of the others; from then on, until o
\* is attached again, set and notify on the store do not invoke o, set still
\* replaces the state, and the observers that remain are invoked in their order.
C9_DetachStops ==
    [][/\ (last'.op = "detach" /\ err' = NoError) =>
             /\ store'[last'.s].observers = Without(store[last'.s].observers, last'.o)
             /\ store'[last'.s].state = store[last'.s].state
             /\ last'.o \in gone'[last'.s]
       /\ (last'.op \in {"set", "notify"} /\ err' = NoError) =>
             /\ \A i \in 1..Len(calls') : calls'[i].o \notin gone[last'.s]
             /\ Invoked' = store[last'.s].observers
       /\ \A u \in Updaters \ {"raise"} :
             (SetUpdater(1, u) /\ gone[1] # {}) => ReadAbs(1)' = UpdaterAbs(u, ReadAbs(1))
       /\ \A d \in 0..MaxDepth, n \in Prims :
             (Set(1, d, n) /\ gone[1] # {}) => ReadAbs(1)' = [d |-> d, n |-> n]]_vars

\* After a detach, set has changed the state and notified the two observers that
\* remain, attached in an order that is not the order of their names.
C9_Witness ==
    /\ last.op = "set"
    /\ gone[1] # {}
    /\ Len(calls) = 2
    /\ calls[1].o > calls[2].o
    /\ \A i \in 1..Len(calls) : Abs(heap, calls[i].v) = ReadAbs(1)

\* C10: addStoreAtPointer(s2, p, options) without override, p being allocated,
\* fails with MemoryAllocationError and leaves the registry and the stores as they
\* were, with verbose and without.
C10_NoSilentOverwrite ==
    [][(last'.op = "addStoreAtPointer" /\ ~last'.override
          /\ Lookup(Machine, last'.p) \in StoreIds) =>
          /\ err' = "MemoryAllocationError"
          /\ stores' = stores
          /\ store' = store
          /\ console' = IF last'.verbose THEN 1 ELSE 0]_vars

\* A verbose addStoreAtPointer of a second store to an allocated pointer has failed.
C10_Witness ==
    /\ last.op = "addStoreAtPointer"
    /\ err = "MemoryAllocationError"
    /\ last.verbose
    /\ stores[last.p] \in StoreIds
    /\ stores[last.p] # last.s

\* What Stores.get(p) returns.
Got(p) == get(Machine, p).obj

\* The stores no pointer of the registry leads to.
Orphans == {s \in Made : \A p \in Pointers : stores[p] # s}

\* C11: addStoreAtPointer(s2, p, {override: true}), p being allocated to s1, makes
\* get(p) return s2 and changes no store, so that the observers of s1 stay with s1
\* and s2 has the observers it had; a set on a store invokes the observers of that
\* store and no other.
C11_OverrideReplaces ==
    [][/\ \A s2 \in StoreIds, p \in Named :
             (last'.op = "addStoreAtPointer" /\ last'.override /\ last'.s = s2 /\ last'.p = p
                /\ stores[p] \in StoreIds) =>
                /\ err' = NoError
                /\ Got(p)' = s2
                /\ store' = store
       /\ \A s \in StoreIds :
             (last'.op = "set" /\ last'.s = s) =>
                /\ Invoked' = store[s].observers
                /\ \A i \in 1..Len(calls') : calls'[i].s = s]_vars

\* An override has put s2 where s1 was: s1, which has observers that s2 has not, is
\* no longer in the registry.
C11_Witness ==
    /\ last.op = "addStoreAtPointer"
    /\ last.override
    /\ err = NoError
    /\ Got(last.p) = last.s
    /\ \E s1 \in Orphans :
          /\ s1 # last.s
          /\ \E o \in Observers : includes(store[s1].observers, o)
                                   /\ ~includes(store[last.s].observers, o)

\* C12: upsert(d, p, ...) on a pointer p that is allocated leaves the registry as
\* it was, makes no store, and leaves the state of the store at p as it was.
C12_UpsertKeepsState ==
    [][\A p \in Named, s \in StoreIds :
          (last'.op = "upsert" /\ last'.p = p /\ stores[p] = s) =>
             /\ stores' = stores
             /\ store'[s].state = store[s].state
             /\ \A t \in StoreIds \ {s} : store'[t] = store[t]]_vars

\* An upsert has failed on an observer that an earlier upsert had attached to the
\* store at the pointer.
C12_Witness ==
    /\ last.op = "upsert"
    /\ err = "DuplicateObserverError"
    /\ stores[last.p] \in StoreIds
    /\ store[stores[last.p]].observers = <<2, 1>>

\* C13: upsert(d, p, ...) on a pointer p at which nothing was inserted makes a new
\* Store whose state is d and inserts it at p: get(p) then returns that store.
C13_UpsertCreates ==
    [][\A p \in Named :
          (last'.op = "upsert" /\ last'.p = p /\ stores[p] = Undefined) =>
             \A n \in Prims, observers \in ObserverArrays :
                Upsert(n, p, observers) =>
                   \E s \in StoreIds \ Made :
                      /\ Got(p)' = s
                      /\ store'[s].made
                      /\ store'[s].state = P(n)]_vars

\* The observers of the store get(p) returns; none when it returns no store.
AttachedAt(p) == IF Got(p) \in StoreIds THEN store[Got(p)].observers ELSE << >>

\* The index of the first of observers that is in arr or comes earlier in
\* observers; 0 when there is none.
FirstAttached(arr, observers) ==
    LET again == {i \in 1..Len(observers) :
                     \/ includes(arr, observers[i])
                     \/ \E j \in 1..(i - 1) : observers[j] = observers[i]}
    IN  IF again = {} THEN 0 ELSE CHOOSE i \in again : \A j \in again : i <= j

\* C14: upsert attaches the observers it is given to the store at the pointer, in
\* the order given, after those the store has; at the first that is attached
\* already it fails with DuplicateObserverError, those before it attached and those
\* after it not; it fails in no other way.
C14_UpsertAttaches ==
    [][\A p \in Named :
          (last'.op = "upsert" /\ last'.p = p) =>
             \A n \in Prims, observers \in ObserverArrays :
                Upsert(n, p, observers) =>
                   \E k \in 0..Len(observers) :
                      /\ k = FirstAttached(AttachedAt(p), observers)
                      /\ err' = IF k = 0 THEN NoError ELSE "DuplicateObserverError"
                      /\ AttachedAt(p)' =
                            AttachedAt(p) \o SubSeq(observers, 1, IF k = 0 THEN Len(observers) ELSE k - 1)]_vars

\* C15: removeStore(p), a store being at p, returns and leaves get(p) returning
\* undefined; a removeStore(p) that follows it fails with NullPointerError and
\* changes neither the registry nor a store, with verbose and without.
C15_RemoveTwice ==
    [][\A p \in Named :
          /\ (last'.op = "removeStore" /\ last'.p = p /\ stores[p] \in StoreIds) =>
                /\ err' = NoError
                /\ Got(p)' = Undefined
          /\ (last.op = "removeStore" /\ last.p = p /\ err = NoError
                /\ last'.op = "removeStore" /\ last'.p = p) =>
                /\ err' = "NullPointerError"
                /\ stores' = stores
                /\ store' = store]_vars

\* C16: get(p) raises nothing and changes neither the registry nor a store; it
\* returns the store last inserted at p and not removed since, and undefined when
\* there is none.
C16_GetIsTotal ==
    [][\A p \in Named :
          (last'.op = "get" /\ last'.p = p) =>
             /\ err' = NoError
             /\ stores' = stores
             /\ store' = store
             /\ ret' = stores[p]]_vars

\* C17: addStore(s) raises nothing; the pointer it returns had nothing at it
\* before the call, get of it returns s after the call, and every other pointer
\* has what it had.
C17_AddStoreFresh ==
    [][\A s \in StoreIds, q \in Pointers :
          (last'.op = "addStore" /\ last'.s = s /\ ret' = q) =>
             /\ err' = NoError
             /\ Lookup(Machine, q) = Undefined
             /\ Got(q)' = s
             /\ \A p \in Pointers \ {q} : stores'[p] = stores[p]]_vars

\* addStore has returned a pointer to a registry that holds a store at another
\* pointer as well.
C17_Witness ==
    /\ last.op = "addStore"
    /\ err = NoError
    /\ Got(ret) = last.s
    /\ \E p \in Pointers \ {ret} : stores[p] \in StoreIds

\* C18: useStore(a) without options raises nothing and returns a pointer p such
\* that Stores.get(p).state is a; Stores.get(p).set(b) leaves the same store at p
\* and Stores.get(p).state is b.
C18_RoundTrip ==
    [][/\ \A q \in Pointers :
             (last'.op = "useStore" /\ last'.p = NoPointer /\ ret' = q) =>
                \A a \in Prims :
                   UseStore(a) =>
                      /\ err' = NoError
                      /\ \E s \in StoreIds : Got(q)' = s /\ ReadAbs(s)' = [d |-> 0, n |-> a]
       /\ \A p \in Named, s \in StoreIds :
             (last'.op = "set" /\ last'.s = s /\ Got(p) = s) =>
                \A b \in Prims :
                   Set(s, 0, b) =>
                      /\ err' = NoError
                      /\ Got(p)' = s
                      /\ ReadAbs(s)' = [d |-> 0, n |-> b]]_vars

\* useStore without options has returned a generated pointer, and the store at it
\* holds the state it was given.
C18_Witness ==
    /\ last.op = "useStore"
    /\ last.p = NoPointer
    /\ err = NoError
    /\ ret > NumPointers
    /\ Got(ret) \in StoreIds
    /\ ReadAbs(Got(ret)) = [d |-> 0, n |-> 1]

\* C19: useStore(a, {pointer: q}), nothing having been inserted at q, raises
\* nothing, returns q and leaves at q a new store whose state is a; a later
\* useStore(b, {pointer: q}) without override raises nothing, returns q and leaves
\* the same store at q with the state it had.
C19_PointerStability ==
    [][\A q \in Named :
          /\ (last'.op = "useStore" /\ last'.p = q /\ ~last'.override /\ stores[q] = Undefined) =>
                \A a \in Prims, observers \in ObserverArrays :
                   UseStoreAt(a, q, observers, FALSE) =>
                      /\ err' = NoError
                      /\ ret' = q
                      /\ \E s \in StoreIds \ Made :
                            Got(q)' = s /\ ReadAbs(s)' = [d |-> 0, n |-> a]
          /\ \A s \in StoreIds :
                (last'.op = "useStore" /\ last'.p = q /\ ~last'.override /\ stores[q] = s) =>
                   /\ err' = NoError
                   /\ ret' = q
                   /\ Got(q)' = s
                   /\ ReadAbs(s)' = ReadAbs(s)]_vars

\* arr with every element that comes earlier in it removed.
Distinct(arr) ==
    SelectSeq([i \in 1..Len(arr) |-> IF \E j \in 1..(i - 1) : arr[j] = arr[i] THEN 0 ELSE arr[i]],
              LAMBDA x : x # 0)

\* The StoreObserver the last call of useStore made.
LastWrapper == NumObservers + Len(wrappers)

\* C20: useStore(v, {pointer: q, override: true}), a store being at q, raises
\* nothing and puts at q a new store whose state is v and whose observers are the
\* observers supplied, in their order, and then the StoreObserver of the call; the
\* store that was at q keeps its observers and the new store has none of them
\* unless supplied.
C20_UseStoreOverride ==
    [][\A q \in Named, s1 \in StoreIds :
          (last'.op = "useStore" /\ last'.p = q /\ last'.override /\ stores[q] = s1) =>
             \A v \in Prims, observers \in ObserverArrays :
                UseStoreAt(v, q, observers, TRUE) =>
                   /\ err' = NoError
                   /\ ret' = q
                   /\ store'[s1] = store[s1]
                   /\ \E s2 \in StoreIds \ Made :
                         /\ Got(q)' = s2
                         /\ ReadAbs(s2)' = [d |-> 0, n |-> v]
                         /\ store'[s2].observers = Append(Distinct(observers), LastWrapper')]_vars

\* A second useStore, with override, has displaced the store of the first: the new
\* store has two supplied observers and its own StoreObserver, the displaced one
\* still has the StoreObserver of the first call.
C20_Witness ==
    /\ last.op = "useStore"
    /\ last.override
    /\ err = NoError
    /\ Len(wrappers) = 2
    /\ Got(last.p) \in StoreIds
    /\ Len(store[Got(last.p)].observers) = 3
    /\ \E s1 \in Orphans : includes(store[s1].observers, NumObservers + 1)

\* The callback (0: none was supplied) of the StoreObserver o.
Callback(o) == IF o > NumObservers THEN wrappers[o - NumObservers] ELSE 0

\* C21: when a call of useStore that supplies onChange returns the pointer p, a
\* store is at p and the StoreObserver the call made for the callback is attached
\* to it; a set(w) on a store invokes every StoreObserver attached to it that has a
\* callback, with w.
C21_CallbackAttached ==
    [][/\ (/\ last'.op = "useStore"
           /\ err' = NoError
           /\ Len(wrappers') = Len(wrappers) + 1
           /\ wrappers'[Len(wrappers')] = 1) =>
              \A p \in Pointers :
                 ret' = p =>
                    \E s \in StoreIds :
                       Got(p)' = s /\ includes(store'[s].observers, LastWrapper')
       /\ \A s \in StoreIds :
             (last'.op = "set" /\ last'.s = s /\ err' = NoError) =>
                \A i \in 1..Len(store[s].observers) :
                   Callback(store[s].observers[i]) = 1 =>
                      \E j \in 1..Len(calls') :
                         /\ calls'[j].o = store[s].observers[i]
                         /\ calls'[j].v = store'[s].state]_vars

\* The pointer useStore resolves: the one supplied, else the string the next
\* crypto.randomUUID() returns.
Resolved(p) == IF p = NoPointer THEN NumPointers + uuids + 1 ELSE p

\* C22, as stated: every call of useStore with an options object returns the pointer
\* it resolved, whatever the options.
C22_ReturnsUnconditionally ==
    [][\A p \in Named \cup {NoPointer} :
          (last'.op = "useStore" /\ last'.p = p) => (err' = NoError /\ ret' = Resolved(p))]_vars

\* C22, amended: a call of useStore with an options object returns the pointer it
\* resolved (the one supplied, else a fresh one), unless stopOnError is true and an
\* attach failed: then it raises the error of the attach and returns nothing.  With
\* stopOnError absent or false it always returns.
C22_ReturnsResolved ==
    [][\A p \in Named \cup {NoPointer}, override \in BOOLEAN, v \in BOOLEAN :
          (last'.op = "useStore" /\ last'.p = p /\ last'.override = override /\ last'.verbose = v) =>
             \A n \in Prims, cb \in 0..1, observers \in ObserverLists, e \in BOOLEAN :
                UseStoreWith(n, p, cb, observers, override, [verbose |-> v, stopOnError |-> e]) =>
                   \/ /\ err' = NoError
                      /\ ret' = Resolved(p)
                      /\ p = NoPointer => ret' \notin Known
                   \/ /\ e
                      /\ err' \in {"DuplicateObserverError", "TypeError"}]_vars

\* A call without a pointer has returned the string it generated, and a store is
\* there.
C22_Witness ==
    /\ last.op = "useStore"
    /\ last.p = NoPointer
    /\ err = NoError
    /\ uuids = 1
    /\ ret = NumPointers + 1
    /\ Got(ret) \in StoreIds

\* C23: a call of useStore without errorHandling does not raise
\* DuplicateObserverError, with and without override, whatever observers it is given
\* and whatever the store at the pointer has attached.
C23_DefaultSwallows ==
    [][\A p \in Named \cup {NoPointer}, override \in BOOLEAN :
          (last'.op = "useStore" /\ last'.p = p /\ last'.override = override /\ ~last'.verbose) =>
             \A n \in Prims, cb \in 0..1, observers \in ObserverLists :
                UseStoreWith(n, p, cb, observers, override, [verbose |-> FALSE, stopOnError |-> FALSE]) =>
                   err' # "DuplicateObserverError"]_vars

\* A call that named an allocated pointer and supplied an observer the store had
\* attached has returned: the StoreObserver it made is attached to no store.
C23_Witness ==
    /\ last.op = "useStore"
    /\ last.p \in Known
    /\ ~last.override
    /\ ~last.verbose
    /\ err = NoError
    /\ ret = last.p
    /\ Len(wrappers) = 1
    /\ Got(last.p) \in StoreIds
    /\ \A s \in StoreIds : ~includes(store[s].observers, LastWrapper)

\* C24: a call of useStore with stopOnError true that meets an observer already
\* attached (the k-th of the observers supplied followed by the StoreObserver) raises
\* DuplicateObserverError and attaches none of those after it, those before it being
\* attached: with override to the new store, without to the store at the pointer.
\* When it meets none it raises nothing and attaches them all.
C24_StopOnError ==
    [][\A p \in Named \cup {NoPointer}, override \in BOOLEAN, v \in BOOLEAN :
          (last'.op = "useStore" /\ last'.p = p /\ last'.override = override /\ last'.verbose = v) =>
             \A n \in Prims, cb \in 0..1, observers \in ObserverLists, q \in Pointers :
                (/\ UseStoreWith(n, p, cb, observers, override, [verbose |-> v, stopOnError |-> TRUE])
                 /\ q = Resolved(p)
                 /\ override \/ Lookup(Machine, q) # Inherited) =>
                   \E all \in {Append(observers, LastWrapper + 1)},
                      had \in {IF override THEN << >> ELSE AttachedAt(q)} :
                      \E k \in {FirstAttached(had, all)} :
                         /\ err' = IF k = 0 THEN NoError ELSE "DuplicateObserverError"
                         /\ \E s \in StoreIds :
                               /\ store'[s].made
                               /\ IF override THEN ~store[s].made ELSE Got(q)' = s
                               /\ store'[s].observers =
                                     had \o SubSeq(all, 1, IF k = 0 THEN Len(all) ELSE k - 1)]_vars

\* A call with override and stopOnError has raised DuplicateObserverError at the
\* second of two equal observers: the store it made has the first and no
\* StoreObserver.
C24_Witness ==
    /\ last.op = "useStore"
    /\ last.override
    /\ err = "DuplicateObserverError"
    /\ Len(wrappers) = 1
    /\ \E s \in Made : store[s].observers = <<1>> /\ \A q \in Pointers : stores[q] # s

\* C25: a call of configure() when window.stores is a StoreStack leaves that
\* instance at window.stores, constructs none, and leaves every store registered in
\* it: the registry's entries and the stores.
C25_ConfigureIdempotent ==
    [][(last'.op = "configure" /\ window \in 1..stacks) =>
          /\ window' = window
          /\ stacks' = stacks
          /\ WindowStores' = WindowStores
          /\ store' = store]_vars

\* configure() has been called again on the instance made at load, which has a
\* store registered.
C25_Witness ==
    /\ last.op = "configure"
    /\ window = 1
    /\ \E p \in Pointers : WindowStores[p] \in StoreIds

\* C26: notify, called directly or by set, on a store whose i-th observer throws
\* from update, throws that error to its caller having called the observers up to
\* the i-th, in the order attached, and none of those after it; when no observer
\* throws it calls them all and throws nothing.
C26_NotifyFailsFast ==
    [][\A s \in StoreIds :
          (last'.op \in {"notify", "set"} /\ last'.s = s) =>
             \E i \in {indexOf(store[s].observers, Thrower) + 1} :
                /\ err' = IF i = 0 THEN NoError ELSE "Error"
                /\ Invoked' = SubSeq(store[s].observers, 1,
                                      IF i = 0 THEN Len(store[s].observers) ELSE i)]_vars

\* A set has thrown the error of the second observer; the first two were called
\* and the store has an observer after them.
C26_Witness ==
    /\ last.op = "set"
    /\ err = "Error"
    /\ Len(store[1].observers) >= 3
    /\ store[1].observers[2] = Thrower
    /\ Len(calls) = 2

\* C27: for every pointer p the caller can name, "toString" included, at which
\* nothing has been inserted: get(p) is undefined, addStoreAtPointer(s, p) without
\* override returns and puts s at p, and upsert(d, p) puts at p a new store whose
\* state is d; and whatever get returns is a Store or undefined.
C27_PointersVerbatim ==
    [][\A p \in Named :
          /\ Got(p) \in StoreIds \cup {Undefined}
          /\ stores[p] = Undefined =>
                /\ Got(p) = Undefined
                /\ \A s \in StoreIds :
                      (/\ last'.op = "addStoreAtPointer"
                       /\ last'.p = p /\ last'.s = s /\ ~last'.override) =>
                          err' = NoError /\ Got(p)' = s
                /\ (last'.op = "upsert" /\ last'.p = p) =>
                      \A d \in Prims, observers \in ObserverArrays :
                         Upsert(d, p, observers) =>
                            \E s \in StoreIds \ Made :
                               Got(p)' = s /\ store'[s].state = P(d)]_vars

\* C28: a call of useStore at a pointer where nothing has been inserted leaves at
\* the pointer what the same call with the other value of override would leave: a
\* store with the same state and the same observers in the same order, and raises
\* what that call would raise.
C28_OverrideIrrelevant ==
    [][\A p \in Named, ov \in BOOLEAN :
          (/\ last'.op = "useStore" /\ last'.p = p /\ last'.override = ov
           /\ stores[p] = Undefined /\ HasRoom) =>
             \A n \in Prims, observers \in ObserverArrays :
                UseStoreAt(n, p, observers, ov) =>
                   \E b \in {useStore(Machine, P(n),
                                      [given |-> TRUE, pointer |-> p, onChange |-> 0,
                                       observers |-> observers, override |-> ~ov,
                                       verbose |-> FALSE, stopOnError |-> FALSE])} :
                      /\ err' = b.err
                      /\ stores'[p] \in StoreIds
                      /\ b.stores[p] \in StoreIds
                      /\ store'[stores'[p]] = b.store[b.stores[p]]]_vars

\* The calls that write the registry.
Writers == {"addStore", "addStoreAtPointer", "upsert", "removeStore", "useStore"}

\* C29, as stated: a call that writes the registry leaves the entry at every
\* pointer other than the one it targets as it was: the store there, its state and
\* its observers.  The pointer targeted is the one the call names, else the fresh
\* one it returns.
C29_OtherEntriesUnchanged ==
    [][last'.op \in Writers =>
          \E t \in {IF last'.p = NoPointer THEN ret' ELSE last'.p} :
             /\ last'.p = NoPointer => (t \notin Known /\ stores[t] = Undefined)
             /\ \A q \in Pointers \ {t} :
                   /\ stores'[q] = stores[q]
                   /\ stores[q] \in StoreIds => store'[stores[q]] = store[stores[q]]]_vars

\* C29, amended: a call that writes the registry leaves the store registered at
\* every pointer other than the one it targets, and the state and the observers of
\* every store other than the one that was at the pointer it targets; addStore and
\* useStore without a pointer target a pointer that was not in use and change no
\* existing store.
C29_Frame ==
    [][last'.op \in Writers =>
          \E t \in {IF last'.p = NoPointer THEN ret' ELSE last'.p} :
             /\ last'.p = NoPointer => (t \notin Known /\ stores[t] = Undefined)
             /\ \A q \in Pointers \ {t} : stores'[q] = stores[q]
             /\ \A s \in Made : s # stores[t] => store'[s] = store[s]]_vars

\* An upsert has attached observers to a store that is registered at another
\* pointer as well.
C29_Witness ==
    /\ last.op = "upsert"
    /\ err = NoError
    /\ last.p \in Known
    /\ \E q \in Pointers \ {last.p} :
          /\ stores[q] \in StoreIds
          /\ stores[q] = stores[last.p]
          /\ store[stores[q]].observers # << >>

\* C30: what s.state returns changes only by a call of set on s: no other step,
\* the caller writing into a value it passed to the constructor among them, changes
\* it.
C30_ReadOnlyExceptSet ==
    [][\A s \in StoreIds :
          (store[s].made /\ ~(last'.op = "set" /\ last'.s = s)) =>
             ReadAbs(s)' = ReadAbs(s)]_vars

\* C31: a set called from inside an update runs at once: with Clamp the i-th
\* observer and no Looper, set(n), n not 1, calls the observers up to Clamp, which
\* see n, then (the set of Clamp) all the observers, which see 1, and then those
\* after Clamp, which see 1, and the state is 1.  With Looper attached, set and
\* notify do not return: each update of Looper calls set, until the call stack is
\* exhausted.
C31_NoReentrancyGuard ==
    [][\A s \in StoreIds :
          (last'.op \in {"set", "notify"} /\ last'.s = s) =>
             \E obs \in {store[s].observers} :
                /\ includes(obs, Looper) => err' = "RangeError"
                /\ (last'.op = "set" /\ includes(obs, Clamp) /\ ~includes(obs, Looper)) =>
                      \E i \in {indexOf(obs, Clamp) + 1} :
                         \A n \in Prims \ {1} :
                            Set(s, 0, n) =>
                               /\ err' = NoError
                               /\ store'[s].state = P(1)
                               /\ Invoked' = SubSeq(obs, 1, i) \o obs \o SubSeq(obs, i + 1, Len(obs))
                               /\ \A j \in 1..Len(calls') :
                                     calls'[j].v = IF j <= i THEN P(n) ELSE P(1)]_vars

\* A set(0) has returned on a store that has Clamp between two observers: each of
\* the three was called twice.
C31_Witness ==
    /\ last.op = "set"
    /\ err = NoError
    /\ Len(store[1].observers) = 3
    /\ store[1].observers[2] = Clamp
    /\ Len(calls) = 6
    /\ calls[1].v = P(0)

\* C32: removeStore(p) and an insertion with override at p leave the store that
\* was at p as it was, state and observers, and get(p) no longer returns it; a set
\* on a store that is at no pointer assigns its state and calls its observers, in
\* order, with the new state.
C32_OrphanStillWorks ==
    [][\A s \in StoreIds :
          /\ \A p \in Named :
                (/\ last'.op \in {"removeStore", "addStoreAtPointer"}
                 /\ last'.p = p /\ stores[p] = s /\ err' = NoError /\ last'.s # s) =>
                    /\ Got(p)' # s
                    /\ store'[s] = store[s]
          /\ (last'.op = "set" /\ last'.s = s /\ s \in Orphans) =>
                \A n \in Prims :
                   Set(s, 0, n) =>
                      /\ err' = NoError
                      /\ store'[s].state = P(n)
                      /\ store'[s].observers = store[s].observers
                      /\ Invoked' = store[s].observers
                      /\ \A j \in 1..Len(calls') : calls'[j].s = s /\ calls'[j].v = P(n)
                      /\ \A p \in Named : Got(p)' # s]_vars

\* A set has notified the observers of a store that is at no pointer; the store got
\* them through upsert, when it was at one.
C32_Witness ==
    /\ last.op = "set"
    /\ last.s \in Orphans
    /\ err = NoError
    /\ Len(calls) = 2
    /\ store[last.s].observers = <<2, 1>>

\* C33: no call but set and notify calls update on an observer: after attach,
\* detach, new Store, addStore, addStoreAtPointer, upsert, removeStore, get and
\* useStore no update has been called, so that the callback useStore was given is
\* not called before a set.
C33_OnlySetAndNotifyUpdate ==
    [][last'.op \notin {"set", "notify"} => calls' = << >>]_vars

\* useStore has attached the StoreObserver of a callback to a store, and no update
\* has been called.
C33_Witness ==
    /\ last.op = "useStore"
    /\ err = NoError
    /\ Len(wrappers) = 1
    /\ Callback(LastWrapper) = 1
    /\ \E s \in Made : includes(store[s].observers, LastWrapper)
    /\ calls = << >>

\* How many times x is in arr.
Count(arr, x) == Len(SelectSeq(arr, LAMBDA y : y = x))

\* C34: in a notify, called directly or by set, every observer that was attached
\* when it began and is attached when it ends is called once, whether or not an
\* update detached an observer from the store.
C34_NotifiedOnce ==
    [][\A s \in StoreIds :
          (last'.op \in {"notify", "set"} /\ last'.s = s /\ err' = NoError) =>
             \A i \in 1..Len(store[s].observers) :
                includes(store'[s].observers, store[s].observers[i]) =>
                   Count(Invoked', store[s].observers[i]) = 1]_vars

\* C35: in a notify, called directly or by set, on a store that has Attacher and
\* not the observer Attacher attaches, that observer is attached by the update of
\* Attacher and called in the same pass, after all the observers the store had, each
\* called once in order; when the store has the observer already, those are called
\* and nothing is attached.
C35_AttachedInPass ==
    [][\A s \in StoreIds :
          (/\ last'.op \in {"notify", "set"} /\ last'.s = s
           /\ includes(store[s].observers, Attacher)) =>
             \E added \in {IF includes(store[s].observers, 1) THEN << >> ELSE <<1>>} :
                /\ err' = NoError
                /\ store'[s].observers = store[s].observers \o added
                /\ Invoked' = store[s].observers \o added
                /\ \A j \in 1..Len(calls') : calls'[j].v = store'[s].state]_vars

\* A set has called four observers on a store that had three when it began: the
\* last is the one the update of Attacher, the first of them, attached.
C35_Witness ==
    /\ last.op = "set"
    /\ err = NoError
    /\ Len(calls) = 4
    /\ calls[1].o = Attacher
    /\ calls[4].o = 1
    /\ store[1].observers[4] = 1

\* C36: when a set returns, its observers having raised nothing and attached or
\* detached nothing though they may have called set on the store, every observer
\* of the store has been called, and the last call of each read the state the store
\* has when the set returns.
C36_LastUpdateSeesFinal ==
    [][\A s \in StoreIds :
          (/\ last'.op = "set" /\ last'.s = s /\ err' = NoError
           /\ store'[s].observers = store[s].observers) =>
             \A i \in 1..Len(store[s].observers) :
                \E j \in 1..Len(calls') :
                   /\ calls'[j].o = store[s].observers[i]
                   /\ calls'[j].v = store'[s].state
                   /\ \A k \in (j + 1)..Len(calls') : calls'[k].o # store[s].observers[i]]_vars

\* A set(0) has returned with the state 1 that Clamp, the first of two observers,
\* set from its update: the other observer was called twice.
C36_Witness ==
    /\ last.op = "set"
    /\ err = NoError
    /\ Len(store[1].observers) = 2
    /\ store[1].observers[1] = Clamp
    /\ Len(calls) = 4
    /\ calls[1].v = P(0)
    /\ store[1].state = P(1)

\* The observers of arr that the caller made: those that are no StoreObserver.
Supplied(arr) == SelectSeq(arr, LAMBDA o : o <= NumObservers)

\* C37: a call of useStore leaves the array it was passed as options.observers as
\* it was, and leaves the stores and the registry as the call with a new array of
\* the caller's observers would.
C37_ObserversUnchanged ==
    [][\A p \in Known, override \in BOOLEAN :
          (last'.op = "useStore" /\ last'.p = p /\ last'.override = override) =>
             \A n \in Prims :
                UseStoreArray(n, p, override) =>
                   /\ array' = array
                   /\ \E b \in {useStore(Machine, P(n),
                                         [given |-> TRUE, pointer |-> p, onChange |-> 1,
                                          observers |-> Supplied(array), override |-> override,
                                          verbose |-> FALSE, stopOnError |-> FALSE])} :
                         stores' = b.stores /\ store' = b.store]_vars

\* C38: a set given an updater that throws throws that error to its caller, leaves
\* the state of the store and its observers as they were, and calls no update.
C38_UpdaterRaises ==
    [][\A s \in StoreIds :
          (last'.op = "set" /\ last'.s = s /\ last'.u = "raise") =>
             /\ err' = "Error"
             /\ ReadAbs(s)' = ReadAbs(s)
             /\ store'[s].observers = store[s].observers
             /\ calls' = << >>]_vars

\* A set with an updater that throws has thrown on a store that has observers.
C38_Witness ==
    /\ last.op = "set"
    /\ last.u = "raise"
    /\ err = "Error"
    /\ Len(store[1].observers) >= 2
    /\ calls = << >>

\* C39: when the update of an observer throws during the notification of set(x),
\* the state stays replaced: the store reads x after the throw, and every observer
\* called before the one that threw read x.
C39_NoRollback ==
    [][\A n \in Prims :
          (last'.op = "set" /\ err' = "Error" /\ Set(1, 0, n)) =>
             /\ ReadAbs(1)' = [d |-> 0, n |-> n]
             /\ calls' # << >>
             /\ calls'[Len(calls')].o = Thrower
             /\ \A i \in 1..(Len(calls') - 1) : calls'[i].v = P(n)]_vars

\* A set(1) has thrown the error of the third observer after two observers read 1,
\* and the store reads 1.
C39_Witness ==
    /\ last.op = "set"
    /\ err = "Error"
    /\ Len(calls) = 3
    /\ calls[3].o = Thrower
    /\ calls[1].v = P(1)
    /\ store[1].state = P(1)

\* C40: a call of useStore with override and stopOnError that raises
\* DuplicateObserverError leaves the registry as it was: every pointer resolves to
\* the store, or to the absence of one, that it resolved to before the call, and
\* every store that existed has the state and the observers it had.
C40_RegistryUnchanged ==
    [][\A p \in Named \cup {NoPointer}, v \in BOOLEAN :
          (/\ last'.op = "useStore" /\ last'.p = p /\ last'.override
           /\ last'.verbose = v /\ err' = "DuplicateObserverError") =>
             \A n \in Prims, cb \in 0..1, observers \in ObserverLists :
                UseStoreWith(n, p, cb, observers, TRUE, [verbose |-> v, stopOnError |-> TRUE]) =>
                   /\ stores' = stores
                   /\ \A q \in Named : Got(q)' = Got(q)
                   /\ \A s \in Made : store'[s] = store[s]]_vars

\* A call with override and stopOnError at a pointer that holds a store with an
\* observer has raised DuplicateObserverError: the pointer holds that store still,
\* and the store the call made is at no pointer.
C40_Witness ==
    /\ last.op = "useStore"
    /\ last.override
    /\ last.p \in Known
    /\ err = "DuplicateObserverError"
    /\ Got(last.p) \in StoreIds
    /\ store[Got(last.p)].observers # << >>
    /\ \E s \in Made : \A q \in Pointers : stores[q] # s

====
